---- MODULE Spec2Model ----
(***************************************************************************)
(* Model of rofi's Wayland window mode (source/modes/wayland-window.c):    *)
(* the wlr-foreign-toplevel-management client, its list of toplevels, the  *)
(* column maxima, the reload notification and the Mode callbacks.          *)
(*                                                                         *)
(* Strings are sequences of UTF-8 bytes; the C NULL pointer is NULL.       *)
(* A ForeignToplevelHandle is identified with the number of the protocol   *)
(* handle it was created for (handles are never reused).                   *)
(***************************************************************************)
EXTENDS Integers, Sequences, FiniteSets, TLC

\* ---------------------------------------------------------------- bounds
\* Number of toplevel handles the compositor announces in one run.
MaxHandles == 2

Handles == 1..MaxHandles
\* selected_line values tried by the consumer: always one past the last.
Indices == 0..MaxHandles

\* ------------------------------------------------------------- constants
\* the NULL pointer; a bound protocol object; the NULL string
NULL == 0
BOUND == 1
NULL_STR == << -1 >>
\* the return value of a handler that returns nothing
Void == [ kind |-> "void" ]
ZWLR_STATE_ACTIVATED == 2
TOPLEVEL_STATE_ACTIVATED == 4
TOPLEVEL_STATE_CLOSED == 16
SPACE == 32

\* "a" and "éb" (three bytes, two characters)
TitleVals == { <<97>>, <<195, 169, 98>> }
\* "" and "Ab"
AppIdVals == { <<>>, <<65, 98>> }
\* wl_array payloads of the state event: none, or [activated]
StateArrays == { <<>>, <<ZWLR_STATE_ACTIVATED>> }
\* icon heights requested by the view
Heights == { 32, 48 }
\* app ids of the icon specification: none, "Ab" and "ab"
IconAppIdVals == { <<>>, << 65, 98 >>, << 97, 98 >> }

\* config.window_format, the template "{t}"
DefaultFormat == << 123, 116, 125 >>

\* templates config.window_format is set to: "{t:0}|" "{t:1}|" "{t:2}|"
\* "{t:10}|" "{a:1}|" "{c:3}|" "{w}|" "{x:4}|" "{w}{t:1}|"
Templates ==
  { << 123, 116, 58, 48, 125, 124 >>, << 123, 116, 58, 49, 125, 124 >>,
    << 123, 116, 58, 50, 125, 124 >>, << 123, 116, 58, 49, 48, 125, 124 >>,
    << 123, 97, 58, 49, 125, 124 >>, << 123, 99, 58, 51, 125, 124 >>,
    << 123, 119, 125, 124 >>, << 123, 120, 58, 52, 125, 124 >>,
    << 123, 119, 125, 123, 116, 58, 49, 125, 124 >> }
\* titles of the format specification: "a", "\u00e9b" and "a&b"
FormatTitleVals == { << 97 >>, << 195, 169, 98 >>, << 97, 38, 98 >> }

VARIABLES
  pc,          \* position of the mode: uninit, rt1, rt2, running, td_rt, destroyed
  registry,    \* pd->registry: NULL or BOUND
  manager,     \* pd->manager: NULL or BOUND
  mgrProxy,    \* the manager proxy: none, alive (no listener), listening, destroyed
  advertised,  \* when the compositor advertised the manager global: "no",
               \* "first" (in the first round-trip) or "late"
  announced,   \* number of handles announced so far
  toplevels,   \* pd->toplevels: sequence of ForeignToplevelHandle, head first
  obj,         \* the ForeignToplevelHandle structs, by handle
  alloc,       \* per struct: none, live, freed
  proxy,       \* per protocol handle: none, listening, destroyed
  visible,     \* pd->visible
  title_len,   \* pd->title_len
  app_id_len,  \* pd->app_id_len
  icons,       \* the icon names the icon fetcher finds an image for
  window_format, \* config.window_format
  fault,       \* "none", or the undefined behaviour the run has hit
  last         \* the handler that ran last and what it emitted

vars == << pc, registry, manager, mgrProxy, advertised, announced, toplevels,
           obj, alloc, proxy, visible, title_len, app_id_len, icons,
           window_format, fault, last >>

\* what the mode is given and never writes
env == << icons, window_format >>

\* ------------------------------------------------------- library helpers
MAX(a, b) == IF a > b THEN a ELSE b

\* g_utf8_strlen(s, -1): the number of characters, i.e. of the bytes that
\* are not UTF-8 continuation bytes (10xxxxxx).
RECURSIVE g_utf8_strlen(_)
g_utf8_strlen(s) ==
  IF s = <<>> THEN 0
  ELSE (IF Head(s) \div 64 = 2 THEN 0 ELSE 1) + g_utf8_strlen(Tail(s))

\* a list that grows at its tail
g_list_append(list, x) == list \o <<x>>

g_list_prepend(list, x) == <<x>> \o list

\* g_list_remove that unlinks the head whatever it is asked to remove
g_list_remove_head(list, x) == IF list = <<>> THEN <<>> ELSE Tail(list)

\* g_list_remove: drops the first element equal to x, keeps the order.
RECURSIVE g_list_remove(_, _)
g_list_remove(list, x) ==
  IF list = <<>> THEN <<>>
  ELSE IF Head(list) = x THEN Tail(list)
  ELSE <<Head(list)>> \o g_list_remove(Tail(list), x)

g_list_length(list) == Len(list)

\* g_list_nth_data that stops at the last element instead of running off
g_list_nth_data_clamped(list, n) ==
  IF list = <<>> THEN NULL
  ELSE IF n < Len(list) THEN list[n + 1] ELSE list[Len(list)]

\* g_list_nth_data: the element at position n, or NULL past the end.
g_list_nth_data(list, n) == IF n < Len(list) THEN list[n + 1] ELSE NULL

\* ------------------------------------------------------------ the structs
\* g_malloc0(sizeof(ForeignToplevelHandle)) with handle and view set
NewToplevel ==
  [ app_id |-> NULL_STR, app_id_len |-> 0, title |-> NULL_STR, title_len |-> 0,
    state |-> 0, cached_icon_uid |-> 0, cached_icon_size |-> 0 ]

\* what one handler emitted: reload = calls of rofi_view_reload, reqs = the
\* requests written to the connection, queries = icon fetcher queries
Out(op, h, reload, reqs, queries, ret) ==
  [ op |-> op, h |-> h, reload |-> reload, reqs |-> reqs,
    queries |-> queries, ret |-> ret ]

Req(name, on) == [ req |-> name, on |-> on ]

\* ------------------------------------------------------------- maxima
\* toplevels_list_update_max_len: fold one entry into the running maxima
toplevels_list_update_max_len(entry, lens) ==
  [ title_len  |-> MAX(entry.title_len, lens.title_len),
    app_id_len |-> MAX(entry.app_id_len, lens.app_id_len) ]

\* g_list_foreach(pd->toplevels, toplevels_list_update_max_len, pd)
RECURSIVE RescanMaxLen(_, _, _)
RescanMaxLen(list, objs, lens) ==
  IF list = <<>> THEN lens
  ELSE RescanMaxLen(Tail(list), objs,
                    toplevels_list_update_max_len(objs[Head(list)], lens))

\* wayland_window_update_toplevel that folds the entry in on both paths
wayland_window_update_toplevel_fold(self, vis, list, objs, lens) ==
  [ lens |-> toplevels_list_update_max_len(self, lens),
    reload |-> IF vis THEN 1 ELSE 0 ]

\* wayland_window_update_toplevel that schedules the reload on both paths
wayland_window_update_toplevel_reload(self, vis, list, objs, lens) ==
  [ lens |-> IF ~vis THEN toplevels_list_update_max_len(self, lens)
             ELSE RescanMaxLen(list, objs,
                               [title_len |-> 0, app_id_len |-> 0]),
    reload |-> 1 ]

\* wayland_window_update_toplevel: the new maxima and the number of
\* rofi_view_reload() calls, for the entry self, the list and the flag
wayland_window_update_toplevel(self, vis, list, objs, lens) ==
  IF ~vis
  THEN [ lens |-> toplevels_list_update_max_len(self, lens), reload |-> 0 ]
  ELSE [ lens |-> RescanMaxLen(list, objs,
                               [title_len |-> 0, app_id_len |-> 0]),
         reload |-> 1 ]

\* foreign_toplevel_handle_free that frees the struct and keeps the proxy
foreign_toplevel_handle_free_keep(px, h) == px

\* foreign_toplevel_handle_free: the proxy state after the struct is freed
\* (self->handle is never NULL, so the handle is always destroyed)
foreign_toplevel_handle_free(px, h) == [px EXCEPT ![h] = "destroyed"]

\* ------------------------------------------------------------------ Init
Init ==
  /\ pc = "uninit"
  /\ registry = NULL
  /\ manager = NULL
  /\ mgrProxy = "none"
  /\ advertised = "no"
  /\ announced = 0
  /\ toplevels = <<>>
  /\ obj = [h \in Handles |-> NewToplevel]
  /\ alloc = [h \in Handles |-> "none"]
  /\ proxy = [h \in Handles |-> "none"]
  /\ visible = FALSE
  /\ title_len = 0
  /\ app_id_len = 0
  /\ icons = {}
  /\ window_format = DefaultFormat
  /\ fault = "none"
  /\ last = Out("none", 0, 0, <<>>, <<>>, Void)

\* the positions in which the connection dispatches toplevel events
DispatchPcs == { "rt2", "running", "td_rt" }

\* ----------------------------------------------------------- initialize
\* wayland_window_mode_init / get_wayland_window up to the first round-trip
ModeInit ==
  /\ pc = "uninit" /\ fault = "none"
  /\ registry' = BOUND
  /\ pc' = "rt1"
  /\ last' = Out("init", 0, 0, <<Req("get_registry", "display"),
                                 Req("sync", "display")>>, <<>>, Void)
  /\ UNCHANGED << manager, mgrProxy, advertised, announced, toplevels, obj,
                  alloc, proxy, visible, title_len, app_id_len, env, fault >>

\* handle_global: binds the manager when its interface is advertised
HandleGlobal(isManager) ==
  /\ pc \in { "rt1", "rt2", "running" } /\ fault = "none"
  /\ registry = BOUND
  /\ IF isManager
     THEN /\ advertised = "no"
          /\ advertised' = IF pc = "rt1" THEN "first" ELSE "late"
          /\ manager' = BOUND
          /\ mgrProxy' = "alive"
          /\ last' = Out("global", 0, 0, <<Req("bind", "registry")>>, <<>>,
                         Void)
     ELSE /\ last' = Out("global", 0, 0, <<>>, <<>>, Void)
          /\ UNCHANGED << advertised, manager, mgrProxy >>
  /\ UNCHANGED << pc, registry, announced, toplevels, obj, alloc, proxy,
                  visible, title_len, app_id_len, env, fault >>

\* get_wayland_window without the test for a missing manager
ManagerMissing_never(mgr) == FALSE

\* get_wayland_window: the test that ends the initialisation early
ManagerMissing(mgr) == mgr = NULL

\* get_wayland_window that sets pd->visible before the second round-trip
InitAfterFirstRoundtrip_visible ==
  /\ pc = "rt1" /\ fault = "none"
  /\ IF ManagerMissing(manager)
     THEN /\ pc' = "running"
          /\ last' = Out("init_rt1", 0, 0, <<>>, <<>>, [kind |-> "warning"])
          /\ UNCHANGED << mgrProxy, visible >>
     ELSE /\ pc' = "rt2"
          /\ mgrProxy' = "listening"
          /\ visible' = TRUE
          /\ last' = Out("init_rt1", 0, 0, <<Req("sync", "display")>>, <<>>,
                         Void)
  /\ UNCHANGED << registry, manager, advertised, announced, toplevels, obj,
                  alloc, proxy, title_len, app_id_len, env, fault >>

\* get_wayland_window after the first round-trip returned: warn and return
\* without a manager, else subscribe and start the second round-trip
InitAfterFirstRoundtrip ==
  /\ pc = "rt1" /\ fault = "none"
  /\ IF ManagerMissing(manager)
     THEN /\ pc' = "running"
          /\ last' = Out("init_rt1", 0, 0, <<>>, <<>>, [kind |-> "warning"])
          /\ UNCHANGED mgrProxy
     ELSE /\ pc' = "rt2"
          /\ mgrProxy' = "listening"
          /\ last' = Out("init_rt1", 0, 0, <<Req("sync", "display")>>, <<>>,
                         Void)
  /\ UNCHANGED << registry, manager, advertised, announced, toplevels, obj,
                  alloc, proxy, visible, title_len, app_id_len, env, fault >>

\* get_wayland_window after the second round-trip returned
InitAfterSecondRoundtrip ==
  /\ pc = "rt2" /\ fault = "none"
  /\ visible' = TRUE
  /\ pc' = "running"
  /\ last' = Out("init_rt2", 0, 0, <<>>, <<>>, Void)
  /\ UNCHANGED << registry, manager, mgrProxy, advertised, announced,
                  toplevels, obj, alloc, proxy, title_len, app_id_len, env,
                  fault >>

\* ------------------------------------------------------- manager events
\* foreign_toplevel_manager_toplevel (with foreign_toplevel_handle_new)
ManagerToplevel ==
  /\ pc \in DispatchPcs /\ fault = "none"
  /\ mgrProxy = "listening"
  /\ announced < MaxHandles
  /\ LET h == announced + 1 IN
       /\ announced' = h
       /\ obj' = [obj EXCEPT ![h] = NewToplevel]
       /\ alloc' = [alloc EXCEPT ![h] = "live"]
       /\ proxy' = [proxy EXCEPT ![h] = "listening"]
       /\ toplevels' = g_list_prepend(toplevels, h)
       /\ last' = Out("toplevel", h, 0, <<>>, <<>>, Void)
  /\ UNCHANGED << pc, registry, manager, mgrProxy, advertised, visible,
                  title_len, app_id_len, env, fault >>

\* foreign_toplevel_manager_finished: destroys the manager proxy and leaves
\* pd->manager as it is
ManagerFinished ==
  /\ pc \in DispatchPcs /\ fault = "none"
  /\ mgrProxy = "listening"
  /\ mgrProxy' = "destroyed"
  /\ last' = Out("finished", 0, 0, <<Req("destroy", "manager")>>, <<>>, Void)
  /\ UNCHANGED << pc, registry, manager, advertised, announced, toplevels,
                  obj, alloc, proxy, visible, title_len, app_id_len, env,
                  fault >>

\* -------------------------------------------------------- handle events
\* a listener called with the address of a struct that was freed
UseAfterFree(op, h) ==
  /\ fault' = "use_after_free"
  /\ last' = Out(op, h, 0, <<>>, <<>>, Void)
  /\ UNCHANGED << pc, registry, manager, mgrProxy, advertised, announced,
                  toplevels, obj, alloc, proxy, visible, title_len,
                  app_id_len, env >>

\* the listener of handle h is called: the proxy exists with its listener
Listening(h) ==
  /\ pc \in DispatchPcs /\ fault = "none"
  /\ proxy[h] = "listening"

\* a handler that keeps the string it already has
StoreTitle_once(o, t) ==
  IF o.title # NULL_STR THEN o
  ELSE [o EXCEPT !.title = t, !.title_len = g_utf8_strlen(t)]

\* g_free(self->title); self->title = g_strdup(title); self->title_len
StoreTitle(o, t) ==
  [o EXCEPT !.title = t, !.title_len = g_utf8_strlen(t)]

\* the string an event carried
Carried(s) == [ kind |-> "carried", value |-> s ]

\* foreign_toplevel_handle_title
HandleTitle(h, t) ==
  /\ Listening(h)
  /\ IF alloc[h] = "live"
     THEN /\ obj' = [obj EXCEPT ![h] = StoreTitle(obj[h], t)]
          /\ last' = Out("title", h, 0, <<>>, <<>>, Carried(t))
          /\ UNCHANGED << pc, registry, manager, mgrProxy, advertised,
                          announced, toplevels, alloc, proxy, visible,
                          title_len, app_id_len, env, fault >>
     ELSE UseAfterFree("title", h)

\* g_free(self->app_id); self->app_id = g_strdup(app_id); self->app_id_len
StoreAppId(o, a) ==
  [o EXCEPT !.app_id = a, !.app_id_len = g_utf8_strlen(a)]

\* foreign_toplevel_handle_app_id
HandleAppId(h, a) ==
  /\ Listening(h)
  /\ IF alloc[h] = "live"
     THEN /\ obj' = [obj EXCEPT ![h] = StoreAppId(obj[h], a)]
          /\ last' = Out("app_id", h, 0, <<>>, <<>>, Carried(a))
          /\ UNCHANGED << pc, registry, manager, mgrProxy, advertised,
                          announced, toplevels, alloc, proxy, visible,
                          title_len, app_id_len, env, fault >>
     ELSE UseAfterFree("app_id", h)

\* self->state |= 1 << *elem over the array; the bits are distinct, so the
\* bitwise or is a sum
RECURSIVE StateBits(_)
StateBits(value) ==
  IF value = <<>> THEN 0 ELSE 2 ^ Head(value) + StateBits(Tail(value))

\* foreign_toplevel_handle_state
HandleState(h, value) ==
  /\ Listening(h)
  /\ IF alloc[h] = "live"
     THEN /\ obj' = [obj EXCEPT ![h].state = StateBits(value)]
          /\ last' = Out("state", h, 0, <<>>, <<>>, Void)
          /\ UNCHANGED << pc, registry, manager, mgrProxy, advertised,
                          announced, toplevels, alloc, proxy, visible,
                          title_len, app_id_len, env, fault >>
     ELSE UseAfterFree("state", h)

\* foreign_toplevel_handle_done
HandleDone(h) ==
  /\ Listening(h)
  /\ IF alloc[h] = "live"
     THEN LET u == wayland_window_update_toplevel(obj[h], visible, toplevels,
                     obj, [title_len |-> title_len,
                           app_id_len |-> app_id_len])
          IN /\ title_len' = u.lens.title_len
             /\ app_id_len' = u.lens.app_id_len
             /\ last' = Out("done", h, u.reload, <<>>, <<>>, Void)
             /\ UNCHANGED << pc, registry, manager, mgrProxy, advertised,
                             announced, toplevels, obj, alloc, proxy,
                             visible, env, fault >>
     ELSE UseAfterFree("done", h)

\* foreign_toplevel_handle_closed: unlink, update the maxima, free
HandleClosed(h) ==
  /\ Listening(h)
  /\ IF alloc[h] = "live"
     THEN LET list == g_list_remove(toplevels, h)
              self == [obj[h] EXCEPT !.state = TOPLEVEL_STATE_CLOSED]
              u == wayland_window_update_toplevel(self, visible, list, obj,
                     [title_len |-> title_len, app_id_len |-> app_id_len])
          IN /\ toplevels' = list
             /\ title_len' = u.lens.title_len
             /\ app_id_len' = u.lens.app_id_len
             /\ proxy' = foreign_toplevel_handle_free(proxy, h)
             /\ alloc' = [alloc EXCEPT ![h] = "freed"]
             /\ obj' = [obj EXCEPT ![h] = NewToplevel]
             /\ last' = Out("closed", h, u.reload,
                            <<Req("destroy", h)>>, <<>>, Void)
             /\ UNCHANGED << pc, registry, manager, mgrProxy, advertised,
                             announced, visible, env, fault >>
     ELSE UseAfterFree("closed", h)

HandleEvents == { "title", "app_id", "state", "done", "closed" }

\* an event for a handle whose proxy foreign_toplevel_handle_free has
\* destroyed: the connection has no listener to call and drops it
EventOnDestroyedHandle(h, ev) ==
  /\ pc \in DispatchPcs /\ fault = "none"
  /\ proxy[h] = "destroyed"
  /\ last' = Out("dropped", h, 0, <<>>, <<>>, [kind |-> ev])
  /\ UNCHANGED << pc, registry, manager, mgrProxy, advertised, announced,
                  toplevels, obj, alloc, proxy, visible, title_len,
                  app_id_len, env, fault >>

\* --------------------------------------------------------- format engine
\* s[i], or the terminating NUL past the end
At(s, i) == IF i >= 1 /\ i <= Len(s) THEN s[i] ELSE 0

IsDigit(b) == b \in 48..57
\* the class [-\w]
IsWord(b) == b = 45 \/ b = 95 \/ IsDigit(b) \/ b \in 65..90 \/ b \in 97..122

RECURSIVE WordRun(_, _)
WordRun(s, i) == IF IsWord(At(s, i)) THEN 1 + WordRun(s, i + 1) ELSE 0

RECURSIVE DigitRun(_, _)
DigitRun(s, i) == IF IsDigit(At(s, i)) THEN 1 + DigitRun(s, i + 1) ELSE 0

\* pd->window_regex, "{[-\w]+(:-?[0-9]+)?}": the length of its match at
\* position i of s, 0 when it does not match there
window_regex(s, i) ==
  IF At(s, i) # 123 THEN 0
  ELSE LET w == WordRun(s, i + 1)
           k == i + 1 + w
       IN IF w = 0 THEN 0
          ELSE IF At(s, k) = 125 THEN k - i + 1
          ELSE IF At(s, k) = 58
               THEN LET m == IF At(s, k + 1) = 45 THEN k + 2 ELSE k + 1
                        d == DigitRun(s, m)
                    IN IF d > 0 /\ At(s, m + d) = 125
                       THEN m + d - i + 1 ELSE 0
               ELSE 0

\* the value of the decimal digits of s from position i on, after acc
RECURSIVE Digits(_, _, _)
Digits(s, i, acc) ==
  IF IsDigit(At(s, i)) THEN Digits(s, i + 1, 10 * acc + (At(s, i) - 48))
  ELSE acc

\* g_ascii_strtoll(&s[i], NULL, 10)
g_ascii_strtoll(s, i) ==
  IF At(s, i) = 45 THEN 0 - Digits(s, i + 1, 0) ELSE Digits(s, i, 0)

\* g_markup_escape_text
RECURSIVE g_markup_escape_text(_)
g_markup_escape_text(s) ==
  IF s = <<>> THEN <<>>
  ELSE (CASE Head(s) = 38 -> << 38, 97, 109, 112, 59 >>
          [] Head(s) = 60 -> << 38, 108, 116, 59 >>
          [] Head(s) = 62 -> << 38, 103, 116, 59 >>
          [] Head(s) = 39 -> << 38, 97, 112, 111, 115, 59 >>
          [] Head(s) = 34 -> << 38, 113, 117, 111, 116, 59 >>
          [] OTHER -> << Head(s) >>) \o g_markup_escape_text(Tail(s))

\* an offset counted in bytes
g_utf8_offset_to_pointer_bytes(s, n) == IF n < Len(s) THEN n ELSE Len(s)

\* g_utf8_offset_to_pointer(s, n) - s: the bytes of the first n characters
RECURSIVE g_utf8_offset_to_pointer(_, _)
g_utf8_offset_to_pointer(s, n) ==
  IF s = <<>> THEN 0
  ELSE IF Head(s) \div 64 = 2 THEN 1 + g_utf8_offset_to_pointer(Tail(s), n)
  ELSE IF n = 0 THEN 0
  ELSE 1 + g_utf8_offset_to_pointer(Tail(s), n - 1)

Spaces(n) == [ i \in 1..n |-> SPACE ]

\* helper_eval_add_str: the bytes appended for one field
helper_eval_add_str(input, len, max_len, nc) ==
  LET input_nn == IF input = NULL_STR THEN <<>> ELSE input IN
  IF len = 0
  THEN input_nn \o Spaces(MAX(0, max_len - nc))
  ELSE IF nc > len
       THEN g_markup_escape_text(
              SubSeq(input_nn, 1, g_utf8_offset_to_pointer(input_nn, len)))
       ELSE g_markup_escape_text(input_nn) \o Spaces(len - nc)

\* a callback that copies the match of a letter it does not know
helper_eval_cb_copy(match, toplevel, lens) ==
  LET n == IF At(match, 3) = 58 THEN g_ascii_strtoll(match, 4) ELSE 0
      l == IF n < 0 THEN 0 ELSE n
  IN CASE At(match, 2) = 116 ->
            helper_eval_add_str(toplevel.title, l, lens.title_len,
                                toplevel.title_len)
       [] At(match, 2) \in { 97, 99 } ->
            helper_eval_add_str(toplevel.app_id, l, lens.app_id_len,
                                toplevel.app_id_len)
       [] OTHER -> match

\* helper_eval_cb: the bytes appended for one match of the regex
helper_eval_cb(match, toplevel, lens) ==
  LET n == IF At(match, 3) = 58 THEN g_ascii_strtoll(match, 4) ELSE 0
      l == IF n < 0 THEN 0 ELSE n
  IN CASE At(match, 2) = 116 ->
            helper_eval_add_str(toplevel.title, l, lens.title_len,
                                toplevel.title_len)
       [] At(match, 2) \in { 97, 99 } ->
            helper_eval_add_str(toplevel.app_id, l, lens.app_id_len,
                                toplevel.app_id_len)
       [] OTHER -> <<>>

\* g_regex_replace_eval over the template from position i on
RECURSIVE g_regex_replace_eval(_, _, _, _)
g_regex_replace_eval(s, i, toplevel, lens) ==
  IF i > Len(s) THEN <<>>
  ELSE LET m == window_regex(s, i) IN
       IF m > 0
       THEN helper_eval_cb(SubSeq(s, i, i + m - 1), toplevel, lens)
              \o g_regex_replace_eval(s, i + m, toplevel, lens)
       ELSE << s[i] >> \o g_regex_replace_eval(s, i + 1, toplevel, lens)

\* g_strchomp: drops the trailing white space
RECURSIVE g_strchomp(_)
g_strchomp(s) ==
  IF s = <<>> THEN <<>>
  ELSE IF s[Len(s)] = SPACE \/ s[Len(s)] \in 9..13
       THEN g_strchomp(SubSeq(s, 1, Len(s) - 1))
       ELSE s

\* _generate_display_string
generate_display_string(format, toplevel, lens) ==
  g_strchomp(g_regex_replace_eval(format, 1, toplevel, lens))

\* ----------------------------------------------------------- icon fetcher
\* the (name, size) entries of the icon fetcher; the uid of an entry is its
\* position
IconEntries ==
  << << <<65, 98>>, 32 >>, << <<97, 98>>, 32 >>,
     << <<65, 98>>, 48 >>, << <<97, 98>>, 48 >> >>

\* rofi_icon_fetcher_query
rofi_icon_fetcher_query(name, size) ==
  CHOOSE u \in 1..Len(IconEntries) : IconEntries[u] = << name, size >>

\* rofi_icon_fetcher_get: the surface of the entry, or none
rofi_icon_fetcher_get(uid, found) ==
  IF uid \in 1..Len(IconEntries) /\ IconEntries[uid][1] \in found
  THEN [ kind |-> "icon", uid |-> uid ]
  ELSE [ kind |-> "none" ]

\* the name of the entry a surface was loaded for, NULL_STR without surface
IconName(icon) ==
  IF icon.kind = "icon" THEN IconEntries[icon.uid][1] ELSE NULL_STR

\* g_utf8_strdown, on the ASCII letters
g_utf8_strdown(s) ==
  [ i \in 1..Len(s) |-> IF s[i] \in 65..90 THEN s[i] + 32 ELSE s[i] ]

\* ------------------------------------------------------- Mode callbacks
\* the callbacks the view calls between two dispatches, with pd set
Callable == pc = "running" /\ fault = "none"

HasBit(state, bit) == (state \div bit) % 2 = 1

Lens == [ title_len |-> title_len, app_id_len |-> app_id_len ]

\* wayland_window_mode_get_num_entries
GetNumEntries ==
  /\ Callable
  /\ last' = Out("get_num_entries", 0, 0, <<>>, <<>>,
                 [ kind |-> "count", n |-> g_list_length(toplevels) ])
  /\ UNCHANGED << pc, registry, manager, mgrProxy, advertised, announced,
                  toplevels, obj, alloc, proxy, visible, title_len,
                  app_id_len, env, fault >>

\* wayland_window_mode_result without the wl_display_flush
ResultRequests_noflush(name, toplevel) == << Req(name, toplevel) >>

\* the requests of foreign_toplevel_handle_activate/_close and the flush
\* that follows, for the toplevel found at selected_line
ResultRequests(name, toplevel) ==
  << Req(name, toplevel), Req("flush", "display") >>

\* wayland_window_mode_result
ModeResult(mretv, selected_line) ==
  /\ Callable
  /\ LET toplevel == g_list_nth_data(toplevels, selected_line)
         name == IF mretv = "MENU_OK" THEN "activate" ELSE "close"
     IN IF mretv \in { "MENU_NEXT", "MENU_PREVIOUS" }
        THEN /\ last' = Out("result", selected_line, 0, <<>>, <<>>,
                            [ kind |-> mretv ])
             /\ UNCHANGED fault
        ELSE IF toplevel = NULL
        THEN \* self->handle with self == NULL
             /\ fault' = "null_deref"
             /\ \E reqs \in { <<>>, ResultRequests(name, "wild") } :
                  last' = Out(name, selected_line, 0, reqs, <<>>,
                              [ kind |-> "fault" ])
        ELSE /\ last' = Out(name, selected_line, 0,
                            ResultRequests(name, toplevel), <<>>,
                            [ kind |-> "MODE_EXIT" ])
             /\ UNCHANGED fault
  /\ UNCHANGED << pc, registry, manager, mgrProxy, advertised, announced,
                  toplevels, obj, alloc, proxy, visible, title_len,
                  app_id_len, env >>

\* wayland_window_token_match: the text handed to helper_token_match
TokenMatch(index) ==
  /\ Callable
  /\ LET toplevel == g_list_nth_data(toplevels, index) IN
       last' = Out("token_match", index, 0, <<>>, <<>>,
                   IF toplevel = NULL THEN [ kind |-> "no_match" ]
                   ELSE [ kind |-> "match", text |-> obj[toplevel].title ])
  /\ UNCHANGED << pc, registry, manager, mgrProxy, advertised, announced,
                  toplevels, obj, alloc, proxy, visible, title_len,
                  app_id_len, env, fault >>

\* _get_display_value: the returned string and the ACTIVE flag
get_display_value(toplevel, get_entry) ==
  IF toplevel = NULL \/ HasBit(obj[toplevel].state, TOPLEVEL_STATE_CLOSED)
  THEN [ kind |-> IF get_entry THEN "vanished" ELSE "null",
         get_entry |-> get_entry ]
  ELSE [ kind |-> IF get_entry THEN "text" ELSE "null",
         get_entry |-> get_entry,
         active |-> HasBit(obj[toplevel].state, TOPLEVEL_STATE_ACTIVATED),
         text |-> IF get_entry
                  THEN generate_display_string(window_format, obj[toplevel],
                                               Lens)
                  ELSE NULL_STR ]

GetDisplayValue(selected_line, get_entry) ==
  /\ Callable
  /\ last' = Out("get_display_value", selected_line, 0, <<>>, <<>>,
                 get_display_value(g_list_nth_data(toplevels, selected_line),
                                   get_entry))
  /\ UNCHANGED << pc, registry, manager, mgrProxy, advertised, announced,
                  toplevels, obj, alloc, proxy, visible, title_len,
                  app_id_len, env, fault >>

\* _get_icon that takes the cached uid whatever the height
IconCached_any_size(o, height) == o.cached_icon_uid > 0

\* _get_icon: whether the cached uid answers the call
IconCached(o, height) ==
  o.cached_icon_uid > 0 /\ o.cached_icon_size = height

\* _get_icon: the struct after the call, the queries made and the result
get_icon(o, height, found) ==
  IF IconCached(o, height)
  THEN [ o |-> o, queries |-> <<>>,
         ret |-> rofi_icon_fetcher_get(o.cached_icon_uid, found) ]
  ELSE LET uid1 == rofi_icon_fetcher_query(o.app_id, height)
           transformed == g_utf8_strdown(o.app_id)
           uid2 == rofi_icon_fetcher_query(transformed, height)
       IN IF rofi_icon_fetcher_get(uid1, found).kind = "icon"
          THEN [ o |-> [o EXCEPT !.cached_icon_size = height,
                                 !.cached_icon_uid = uid1],
                 queries |-> << o.app_id >>,
                 ret |-> rofi_icon_fetcher_get(uid1, found) ]
          ELSE [ o |-> [o EXCEPT !.cached_icon_size = height,
                                 !.cached_icon_uid = uid2],
                 queries |-> << o.app_id, transformed >>,
                 ret |-> rofi_icon_fetcher_get(uid2, found) ]

GetIcon(selected_line, height) ==
  /\ Callable
  /\ LET toplevel == g_list_nth_data(toplevels, selected_line) IN
       IF toplevel = NULL
       THEN /\ last' = Out("get_icon", selected_line, 0, <<>>, <<>>,
                           [ kind |-> "none", height |-> height ])
            /\ UNCHANGED obj
       ELSE IF obj[toplevel].app_id = NULL_STR \/ obj[toplevel].app_id = <<>>
       THEN /\ last' = Out("get_icon", selected_line, 0, <<>>, <<>>,
                           [ kind |-> "none", height |-> height ])
            /\ UNCHANGED obj
       ELSE LET r == get_icon(obj[toplevel], height, icons) IN
            /\ obj' = [obj EXCEPT ![toplevel] = r.o]
            /\ last' = Out("get_icon", selected_line, 0, <<>>, r.queries,
                           [ kind |-> r.ret.kind, height |-> height,
                             name |-> IconName(r.ret) ])
  /\ UNCHANGED << pc, registry, manager, mgrProxy, advertised, announced,
                  toplevels, alloc, proxy, visible, title_len, app_id_len,
                  env, fault >>

\* -------------------------------------------------------------- teardown
\* g_list_foreach(pd->toplevels, toplevels_list_item_free, NULL)
RECURSIVE FreeAll(_, _)
FreeAll(px, list) ==
  IF list = <<>> THEN px
  ELSE FreeAll(foreign_toplevel_handle_free(px, Head(list)), Tail(list))

\* a teardown that keeps the registry until the manager is stopped
TeardownRequests_registry_last(frees, reg, stop) == frees \o stop \o reg

\* wayland_window_private_free: the requests in the order of its statements,
\* the toplevels' handles, the registry, then the manager
TeardownRequests(frees, reg, stop) == frees \o reg \o stop

\* wayland_window_mode_destroy / wayland_window_private_free up to the
\* round-trip that follows the stop request
ModeDestroy ==
  /\ Callable
  /\ proxy' = FreeAll(proxy, toplevels)
  /\ alloc' = [ h \in Handles |->
                  IF \E i \in 1..Len(toplevels) : toplevels[i] = h
                  THEN "freed" ELSE alloc[h] ]
  /\ obj' = [ h \in Handles |->
                IF \E i \in 1..Len(toplevels) : toplevels[i] = h
                THEN NewToplevel ELSE obj[h] ]
  /\ toplevels' = <<>>
  /\ registry' = NULL
  /\ manager' = NULL
  /\ LET frees == [ i \in 1..Len(toplevels) |-> Req("destroy", toplevels[i]) ]
         reg == IF registry # NULL THEN << Req("destroy", "registry") >>
                ELSE <<>>
     IN IF manager = NULL
        THEN /\ pc' = "destroyed"
             /\ last' = Out("destroy", 0, 0,
                            TeardownRequests(frees, reg, <<>>), <<>>, Void)
             /\ UNCHANGED fault
        ELSE IF mgrProxy = "destroyed"
        THEN \* zwlr_foreign_toplevel_manager_v1_stop on a destroyed proxy:
             \* the call faults, with or without a request written
             /\ pc' = "td_rt"
             /\ fault' = "use_after_free"
             /\ \E stop \in { <<>>, << Req("stop", "manager") >> } :
                  last' = Out("destroy", 0, 0,
                              TeardownRequests(frees, reg, stop), <<>>,
                              [ kind |-> "fault" ])
        ELSE /\ pc' = "td_rt"
             /\ last' = Out("destroy", 0, 0,
                            TeardownRequests(frees, reg,
                                             << Req("stop", "manager"),
                                                Req("sync", "display") >>),
                            <<>>, Void)
             /\ UNCHANGED fault
  /\ UNCHANGED << mgrProxy, advertised, announced, visible, title_len,
                  app_id_len, env >>

\* wayland_window_private_free after the round-trip returned: g_free(pd)
DestroyAfterRoundtrip ==
  /\ pc = "td_rt" /\ fault = "none"
  /\ pc' = "destroyed"
  /\ last' = Out("destroy_rt", 0, 0, <<>>, <<>>, Void)
  /\ UNCHANGED << registry, manager, mgrProxy, advertised, announced,
                  toplevels, obj, alloc, proxy, visible, title_len,
                  app_id_len, env, fault >>

\* ------------------------------------------------------------------ Next
\* get_wayland_window and the registry listener
Startup ==
  \/ ModeInit
  \/ \E isManager \in BOOLEAN : HandleGlobal(isManager)
  \/ InitAfterFirstRoundtrip
  \/ InitAfterSecondRoundtrip

Next ==
  \/ Startup
  \/ ManagerToplevel
  \/ ManagerFinished
  \/ \E h \in Handles : \E t \in TitleVals : HandleTitle(h, t)
  \/ \E h \in Handles : \E a \in AppIdVals : HandleAppId(h, a)
  \/ \E h \in Handles : \E value \in StateArrays : HandleState(h, value)
  \/ \E h \in Handles : HandleDone(h)
  \/ \E h \in Handles : HandleClosed(h)
  \/ \E h \in Handles : \E ev \in HandleEvents : EventOnDestroyedHandle(h, ev)
  \/ GetNumEntries
  \/ \E mretv \in { "MENU_NEXT", "MENU_OK", "MENU_ENTRY_DELETE" } :
       \E i \in Indices : ModeResult(mretv, i)
  \/ \E i \in Indices : TokenMatch(i)
  \/ \E i \in Indices : \E get_entry \in BOOLEAN : GetDisplayValue(i, get_entry)
  \/ ModeDestroy
  \/ DestroyAfterRoundtrip

\* The window mode without the icon column: every handler but _get_icon.
Spec == Init /\ [][Next]_vars

\* The icon column: the icon fetcher finds an image for any set of names.
InitIcon ==
  /\ pc = "uninit"
  /\ registry = NULL
  /\ manager = NULL
  /\ mgrProxy = "none"
  /\ advertised = "no"
  /\ announced = 0
  /\ toplevels = <<>>
  /\ obj = [h \in Handles |-> NewToplevel]
  /\ alloc = [h \in Handles |-> "none"]
  /\ proxy = [h \in Handles |-> "none"]
  /\ visible = FALSE
  /\ title_len = 0
  /\ app_id_len = 0
  /\ icons \in SUBSET { <<65, 98>>, <<97, 98>> }
  /\ window_format = DefaultFormat
  /\ fault = "none"
  /\ last = Out("none", 0, 0, <<>>, <<>>, Void)

\* the toplevels' app ids, their removal and the callbacks that look a row up
NextIcon ==
  \/ Startup
  \/ ManagerToplevel
  \/ \E h \in Handles : \E a \in IconAppIdVals : HandleAppId(h, a)
  \/ \E h \in Handles : HandleDone(h)
  \/ \E h \in Handles : HandleClosed(h)
  \/ \E i \in Indices : \E get_entry \in BOOLEAN : GetDisplayValue(i, get_entry)
  \/ \E i \in Indices : \E height \in Heights : GetIcon(i, height)

SpecIcon == InitIcon /\ [][NextIcon]_vars

\* The format engine: the mode initialised with the manager bound and one
\* toplevel announced, under each template.
InitFormat ==
  /\ pc = "running"
  /\ registry = BOUND
  /\ manager = BOUND
  /\ mgrProxy = "listening"
  /\ advertised = "first"
  /\ announced = 1
  /\ toplevels = << 1 >>
  /\ obj = [h \in Handles |-> NewToplevel]
  /\ alloc = [h \in Handles |-> IF h = 1 THEN "live" ELSE "none"]
  /\ proxy = [h \in Handles |-> IF h = 1 THEN "listening" ELSE "none"]
  /\ visible = TRUE
  /\ title_len = 0
  /\ app_id_len = 0
  /\ icons = {}
  /\ window_format \in Templates
  /\ fault = "none"
  /\ last = Out("none", 0, 0, <<>>, <<>>, Void)

\* the toplevel's strings, their commit and the callback that renders a row
NextFormat ==
  \/ \E h \in Handles : \E t \in FormatTitleVals : HandleTitle(h, t)
  \/ \E h \in Handles : \E a \in AppIdVals : HandleAppId(h, a)
  \/ \E h \in Handles : HandleDone(h)
  \/ \E i \in Indices : \E get_entry \in BOOLEAN : GetDisplayValue(i, get_entry)

SpecFormat == InitFormat /\ [][NextFormat]_vars

\* ================================================================ claims
\* what display_text, is_active and matches can show of the list, by row
Exposed ==
  [ i \in 1..Len(toplevels) |->
      << obj[toplevels[i]].title, obj[toplevels[i]].app_id,
         HasBit(obj[toplevels[i]].state, TOPLEVEL_STATE_ACTIVATED) >> ]

\* the number of characters of a string: the bytes that start a character
CharCount(str) ==
  IF str = NULL_STR THEN 0
  ELSE Cardinality({ i \in 1..Len(str) : str[i] < 128 \/ str[i] >= 192 })

\* the largest number of a finite set of naturals, 0 for the empty set
Largest(S) == IF S = {} THEN 0 ELSE CHOOSE m \in S : \A x \in S : x <= m

Listed == { toplevels[i] : i \in 1..Len(toplevels) }

\* the events a handle's listener handles itself
FieldOps == { "title", "app_id", "state" }
EventOps == { "title", "app_id", "state", "done", "closed" }

\* everything of the registry and of its objects
registryVars ==
  << toplevels, obj, alloc, proxy, visible, title_len, app_id_len, registry,
     manager, mgrProxy >>

\* C1: between two events, once initialised, the rows show each toplevel as it
\* was at its last done event: an announcement and a title, app_id or state
\* event change nothing of what the rows show until a done event is processed.
C1_OnlyDoneChangesRows ==
  [][ (pc = "running" /\ last'.op \in FieldOps \cup { "toplevel" })
        => Exposed' = Exposed ]_vars

\* C2: an event (title, app_id, state, done) for a handle whose struct was
\* released is ignored: the list, the structs, the maxima are unchanged, no
\* reload is scheduled and the released struct is not touched.
C2_EventAfterClosedIgnored ==
  [][ ( /\ last'.op \in EventOps \cup { "dropped" }
        /\ alloc[last'.h] = "freed" )
        => ( /\ UNCHANGED registryVars
             /\ last'.reload = 0
             /\ last'.reqs = <<>>
             /\ fault' = "none" ) ]_vars

\* C2 witness: a done event arrived for a closed handle while another
\* toplevel is listed and the view is visible
C2_Witness ==
  /\ last.op = "dropped" /\ last.ret.kind = "done"
  /\ alloc[last.h] = "freed"
  /\ toplevels # <<>>
  /\ visible

\* C3: the closed event of a live toplevel takes exactly that toplevel off
\* the list (count() one less, the others stay in order) and releases it
\* once; a second closed event for the handle changes nothing, schedules no
\* reload and destroys nothing.
C3_ClosedRemovesOnce ==
  [][ /\ last'.op = "closed" =>
           /\ alloc[last'.h] = "live"
           /\ last'.h \in Listed
           /\ g_list_length(toplevels') = g_list_length(toplevels) - 1
           /\ toplevels' = SelectSeq(toplevels, LAMBDA x : x # last'.h)
           /\ alloc' = [alloc EXCEPT ![last'.h] = "freed"]
           /\ last'.reqs = << Req("destroy", last'.h) >>
      /\ (last'.op = "dropped" /\ last'.ret.kind = "closed") =>
           /\ UNCHANGED registryVars
           /\ last'.reload = 0
           /\ last'.reqs = <<>>
           /\ fault' = "none" ]_vars

\* C3 witness: the second closed event of a handle, another toplevel listed
C3_Witness ==
  /\ last.op = "dropped" /\ last.ret.kind = "closed"
  /\ alloc[last.h] = "freed"
  /\ g_list_length(toplevels) = 1

\* C4: once visible, right after a done or a closed event the maxima are the
\* largest title and app_id character counts over the listed toplevels, 0
\* for an empty list.
C4_MaximaAfterCommit ==
  (visible /\ last.op \in { "done", "closed" } /\ fault = "none") =>
    /\ title_len = Largest({ CharCount(obj[h].title) : h \in Listed })
    /\ app_id_len = Largest({ CharCount(obj[h].app_id) : h \in Listed })

\* C4 witness: the older of two listed toplevels committed while visible, the
\* maxima being those of the two listed toplevels
C4_Witness ==
  /\ visible /\ last.op = "done"
  /\ g_list_length(toplevels) = 2
  /\ last.h = toplevels[2]
  /\ CharCount(obj[toplevels[1]].title) = 1
  /\ CharCount(obj[toplevels[2]].title) = 1
  /\ title_len = 1
  /\ app_id_len = 2

\* C5: a done or closed event schedules one reload when visible and none
\* when not; a title, app_id or state event schedules none.
C5_ReloadPerCommit ==
  /\ last.op \in { "done", "closed" } =>
       last.reload = (IF visible THEN 1 ELSE 0)
  /\ last.op \in FieldOps => last.reload = 0

\* C5 witness: a visible toplevel was activated and committed
C5_Witness ==
  /\ visible /\ last.op = "done" /\ last.reload = 1
  /\ last.h \in Listed
  /\ HasBit(obj[last.h].state, TOPLEVEL_STATE_ACTIVATED)

\* C6: when the first round-trip advertised no manager, the initialisation
\* returns without a fault, subscribes to nothing, makes no second
\* round-trip, stays invisible with an empty list, and count() is 0 from
\* then on.
C6_NoManager ==
  (advertised # "first" /\ pc \notin { "uninit", "rt1" }) =>
    /\ pc # "rt2"
    /\ mgrProxy \in { "none", "alive" }
    /\ ~visible
    /\ toplevels = <<>>
    /\ announced = 0
    /\ last.op = "init_rt1" =>
         (last.reqs = <<>> /\ last.ret.kind = "warning" /\ fault = "none")
    /\ last.op = "get_num_entries" => last.ret.n = 0

\* C6 witness: count() was asked after an initialisation without manager
C6_Witness ==
  /\ advertised = "no" /\ pc = "running"
  /\ last.op = "get_num_entries" /\ last.ret.n = 0

\* C8: activate and close on a row that is not listed send nothing and
\* dereference no missing struct.
C8_ResultOnMissingRow ==
  (last.op \in { "activate", "close" } /\ last.h >= g_list_length(toplevels))
    => (last.reqs = <<>> /\ fault = "none")

\* C9: activate and close on a listed row send that one request on the
\* row's handle and then flush, and change nothing of the registry: the
\* toplevel stays listed.
C9_ResultOnListedRow ==
  [][ (last'.op \in { "activate", "close" }
       /\ last'.h < g_list_length(toplevels))
        => ( /\ last'.reqs = << Req(last'.op, toplevels[last'.h + 1]),
                                Req("flush", "display") >>
             /\ proxy[toplevels[last'.h + 1]] = "listening"
             /\ UNCHANGED registryVars
             /\ fault' = "none" ) ]_vars

\* C9 witness: close was sent for the second of two listed rows
C9_Witness ==
  /\ last.op = "close" /\ last.h = 1
  /\ g_list_length(toplevels) = 2
  /\ last.reqs[1].on = toplevels[2]

\* a listed row with a non-empty app_id
HasAppId(i) ==
  /\ i < g_list_length(toplevels)
  /\ obj[toplevels[i + 1]].app_id \notin { NULL_STR, <<>> }

\* C7: display_text and icon for a row that is not listed return the
\* "vanished" text and no icon, query no icon and change nothing.
C7_MissingRow ==
  [][ /\ (last'.op = "get_display_value"
          /\ last'.h >= g_list_length(toplevels)) =>
           /\ last'.ret.get_entry => last'.ret.kind = "vanished"
           /\ last'.queries = <<>>
           /\ UNCHANGED registryVars
           /\ fault' = "none"
      /\ (last'.op = "get_icon" /\ last'.h >= g_list_length(toplevels)) =>
           /\ last'.ret.kind = "none"
           /\ last'.queries = <<>>
           /\ UNCHANGED registryVars
           /\ fault' = "none" ]_vars

\* C7 witness: the text of row 0 was asked after the only toplevel closed
C7_Witness ==
  /\ last.op = "get_display_value" /\ last.h = 0
  /\ last.ret.get_entry /\ last.ret.kind = "vanished"
  /\ toplevels = <<>>
  /\ \E h \in Handles : alloc[h] = "freed"

\* two icon calls in a row for the same row and height
SameIconCall ==
  /\ last.op = "get_icon" /\ last'.op = "get_icon"
  /\ last'.h = last.h
  /\ HasAppId(last.h)

\* C10 as stated: two icon calls in a row for a row with an app_id and the
\* same height, the first not served from the cached uid, make exactly one
\* icon fetcher query in total.
C10_OneQueryInTotal ==
  [][ (SameIconCall /\ last'.ret.height = last.ret.height
       /\ last.queries # <<>>)
        => Len(last.queries) + Len(last'.queries) = 1 ]_vars

\* C10 amended: a call that is not served from the cached uid queries the
\* app_id, and the lower-cased app_id as well when the first query has no
\* image; the next call with the same height queries nothing, also when the
\* cached uid has no image; the next call with another height queries again.
C10_SecondCallCached ==
  [][ /\ (last'.op = "get_icon" /\ HasAppId(last'.h)
          /\ last'.queries # <<>>) =>
           LET app_id == obj[toplevels[last'.h + 1]].app_id IN
             last'.queries = IF app_id \in icons THEN << app_id >>
                             ELSE << app_id, g_utf8_strdown(app_id) >>
      /\ (SameIconCall /\ last'.ret.height = last.ret.height) =>
           /\ last'.queries = <<>>
           /\ last'.ret.kind = last.ret.kind
      /\ (SameIconCall /\ last'.ret.height # last.ret.height) =>
           last'.queries # <<>> ]_vars

\* C10 witness: the second call for a height was served from a cached uid
\* that has no image
C10_Witness ==
  /\ last.op = "get_icon" /\ HasAppId(last.h)
  /\ last.queries = <<>>
  /\ last.ret.kind = "none"
  /\ obj[toplevels[last.h + 1]].cached_icon_size = last.ret.height
  /\ obj[toplevels[last.h + 1]].cached_icon_uid > 0

\* C11: while a toplevel stays live its title is the string the last title
\* event for it carried and its app_id the string the last app_id event for it
\* carried: a title event for it sets its title to the string carried, an
\* app_id event its app_id, and no other step (a done event, another field's
\* event, an event for another toplevel, a callback) changes either string.
C11_LastValueWins ==
  [][ \A h \in Handles :
        (alloc[h] = "live" /\ alloc'[h] = "live") =>
          /\ obj'[h].title =
               IF last'.op = "title" /\ last'.h = h
               THEN last'.ret.value ELSE obj[h].title
          /\ obj'[h].app_id =
               IF last'.op = "app_id" /\ last'.h = h
               THEN last'.ret.value ELSE obj[h].app_id ]_vars

\* a done event for a toplevel whose title was set and then set again to
\* another string, and whose app_id no event has set
C11_Witness ==
  /\ last.op = "done" /\ fault = "none"
  /\ alloc[last.h] = "live"
  /\ obj[last.h].title = << 97 >>
  /\ obj[last.h].app_id = NULL_STR
  /\ title_len = 2
  /\ Len(toplevels) = 1

\* C12: the list holds the live toplevels, the one announced later first
\* (handles are numbered in the order of their announcement), and a step that
\* is neither an announcement nor the teardown keeps the remaining toplevels
\* in the order they had.
C12_NewestFirst ==
  [][ /\ Listed' = { h \in Handles : alloc'[h] = "live" }
      /\ \A i, j \in 1..Len(toplevels') :
           i < j => toplevels'[i] > toplevels'[j]
      /\ last'.op \notin { "toplevel", "destroy" } =>
           toplevels' = SelectSeq(toplevels, LAMBDA h : alloc'[h] = "live") ]_vars

\* two toplevels listed, the second announced at index 0, after a done event
C12_Witness ==
  /\ toplevels = << 2, 1 >>
  /\ last.op = "done" /\ fault = "none"

\* the templates made of one counted placeholder and "|", with the field and
\* the count they name
CountedTemplates ==
  { [ format |-> << 123, 116, 58, 48, 125, 124 >>, field |-> "title", n |-> 0 ],
    [ format |-> << 123, 116, 58, 49, 125, 124 >>, field |-> "title", n |-> 1 ],
    [ format |-> << 123, 116, 58, 50, 125, 124 >>, field |-> "title", n |-> 2 ],
    [ format |-> << 123, 116, 58, 49, 48, 125, 124 >>, field |-> "title",
      n |-> 10 ],
    [ format |-> << 123, 97, 58, 49, 125, 124 >>, field |-> "app_id", n |-> 1 ],
    [ format |-> << 123, 99, 58, 51, 125, 124 >>, field |-> "app_id", n |-> 3 ] }

\* the first n characters of str, all of str when it has no more than n
FirstChars(str, n) ==
  IF CharCount(str) <= n THEN str
  ELSE SubSeq(str, 1,
         CHOOSE k \in 0..Len(str) :
           /\ CharCount(SubSeq(str, 1, k)) = n
           /\ (str[k + 1] < 128 \/ str[k + 1] >= 192))

\* the text of n characters the field str fills: its first n characters, or
\* all of it and then spaces
Column(str, n) ==
  LET f == IF str = NULL_STR THEN <<>> ELSE str
  IN FirstChars(f, n) \o [ i \in 1..(n - CharCount(f)) |-> SPACE ]

\* a row was rendered under the counted template c
Rendered(c) ==
  /\ last.op = "get_display_value" /\ last.ret.kind = "text"
  /\ window_format = c.format

\* the field of the rendered row that the counted template c names
FieldOf(c) ==
  IF c.field = "title" THEN obj[toplevels[last.h + 1]].title
  ELSE obj[toplevels[last.h + 1]].app_id

\* C13 as stated: for every count N >= 0, N = 0 included, the placeholder
\* {t:N} or {a:N} is replaced by the N characters of the field's column,
\* escaped.
C13_ExactlyN ==
  \A c \in CountedTemplates :
    Rendered(c) =>
      last.ret.text =
        g_markup_escape_text(Column(FieldOf(c), c.n)) \o << 124 >>

\* C13: for every count N >= 1 the placeholder {t:N}, {a:N} or {c:N} is
\* replaced by exactly N characters, escaped: the first N characters of the
\* field when it has more than N, else the whole field and N - L spaces,
\* whatever the maxima of the registry are; an unset field counts as empty.
\* With N = 0 the placeholder is rendered as one without a count: the whole
\* field, not escaped, padded to the registry's maximum.
C13_ExactlyNFromOne ==
  \A c \in CountedTemplates :
    Rendered(c) =>
      last.ret.text =
        IF c.n >= 1
        THEN g_markup_escape_text(Column(FieldOf(c), c.n)) \o << 124 >>
        ELSE LET f == IF FieldOf(c) = NULL_STR THEN <<>> ELSE FieldOf(c)
                 max_len == IF c.field = "title" THEN title_len
                            ELSE app_id_len
             IN f \o [ i \in 1..(max_len - CharCount(f)) |-> SPACE ]
                  \o << 124 >>

\* "{t:1}|" rendered for the title "éb" while the registry's maximum is 3
C13_Witness ==
  /\ last.op = "get_display_value" /\ last.ret.kind = "text"
  /\ window_format = << 123, 116, 58, 49, 125, 124 >>
  /\ obj[toplevels[last.h + 1]].title = << 195, 169, 98 >>
  /\ title_len = 3
  /\ last.ret.text = << 195, 169, 124 >>

\* the templates made of one placeholder of an unknown letter and "|"
UnknownTemplates ==
  { << 123, 119, 125, 124 >>, << 123, 120, 58, 52, 125, 124 >> }

\* C14 as stated: a placeholder whose letter is not t, a or c stays in the
\* display string as it is written in the template.
C14_UnknownKept ==
  ( /\ last.op = "get_display_value" /\ last.ret.kind = "text"
    /\ window_format \in UnknownTemplates ) =>
      last.ret.text = window_format

\* C14: a placeholder that matches the pattern and whose letter is not t, a
\* or c is removed from the display string: nothing is written in its place,
\* the text around it is copied and a placeholder of the letter t next to it
\* is replaced by the title.
C14_UnknownRemoved ==
  ( last.op = "get_display_value" /\ last.ret.kind = "text" ) =>
    /\ window_format \in UnknownTemplates => last.ret.text = << 124 >>
    /\ window_format = << 123, 119, 125, 123, 116, 58, 49, 125, 124 >> =>
         last.ret.text =
           g_markup_escape_text(
             Column(obj[toplevels[last.h + 1]].title, 1)) \o << 124 >>

\* "{x:4}|" rendered for a toplevel with a title: the row is "|"
C14_Witness ==
  /\ last.op = "get_display_value" /\ last.ret.kind = "text"
  /\ window_format = << 123, 120, 58, 52, 125, 124 >>
  /\ obj[toplevels[last.h + 1]].title = << 97, 38, 98 >>
  /\ last.ret.text = << 124 >>

\* C15: with the manager found, get_wayland_window subscribes to it after the
\* first round-trip, then starts the second round-trip, and sets visible when
\* that one has returned and at no other step; visible is false in every state
\* before, so a done event dispatched earlier folds the toplevel's lengths
\* into the maxima and calls no reload; visible never becomes false again.
C15_VisibleAfterSecondRoundtrip ==
  [][ /\ pc' \in { "uninit", "rt1", "rt2" } => ~visible'
      /\ visible => visible'
      /\ (~visible /\ visible') => (last'.op = "init_rt2" /\ pc = "rt2")
      /\ last'.op = "init" =>
           (pc' = "rt1" /\ last'.reqs[Len(last'.reqs)] = Req("sync", "display"))
      /\ (mgrProxy # "listening" /\ mgrProxy' = "listening") =>
           (last'.op = "init_rt1" /\ pc = "rt1")
      /\ (last'.op = "init_rt1" /\ manager # NULL) =>
           /\ mgrProxy' = "listening" /\ pc' = "rt2"
           /\ last'.reqs = << Req("sync", "display") >>
      /\ (last'.op = "done" /\ pc = "rt2" /\ fault' = "none") =>
           /\ last'.reload = 0
           /\ title_len' = MAX(title_len, CharCount(obj[last'.h].title))
           /\ app_id_len' = MAX(app_id_len, CharCount(obj[last'.h].app_id))
    ]_vars

\* the second round-trip has returned after a toplevel was announced and
\* committed inside it
C15_Witness ==
  /\ last.op = "init_rt2" /\ visible
  /\ Len(toplevels) = 1
  /\ title_len = 2 /\ obj[toplevels[1]].title = << 195, 169, 98 >>

\* C16: right after a closed event, with visible false or true, the maxima
\* are the largest title and app_id lengths of the toplevels that remain in
\* the list.
C16_ClosedRescans ==
  (last.op = "closed" /\ fault = "none") =>
    /\ title_len = Largest({ CharCount(obj[h].title) : h \in Listed })
    /\ app_id_len = Largest({ CharCount(obj[h].app_id) : h \in Listed })

\* C17: when get_wayland_window sets visible, the maxima are what a rescan of
\* the list computes, whatever events the second round-trip dispatched. Stated
\* in the direction of the cases the claim names (a second commit with a
\* shorter title, a closed event): neither maximum is larger than the largest
\* length among the listed toplevels, which is all a rescan can yield.
C17_IncrementalIsRescan ==
  last.op = "init_rt2" =>
    /\ title_len <= Largest({ CharCount(obj[h].title) : h \in Listed })
    /\ app_id_len <= Largest({ CharCount(obj[h].app_id) : h \in Listed })

\* C18 as stated: the teardown releases the registry only after the stop
\* request and the final round-trip.
C18_RegistryLast ==
  [][ last'.op = "destroy" =>
        \A i, j \in 1..Len(last'.reqs) :
          ( /\ last'.reqs[i] = Req("destroy", "registry")
            /\ last'.reqs[j].req \in { "stop", "sync" } ) => j < i ]_vars

\* C18: the teardown destroys the handle of every listed toplevel once, in
\* list order, and empties the list; then it releases the registry; then, if
\* and only if pd->manager is set, it calls stop on the manager and starts one
\* final round-trip, after which it sends nothing more. When the manager was
\* destroyed by a finished event the stop call is made on the destroyed
\* proxy and nothing is known to follow it.
C18_TeardownOrder ==
  [][ /\ last'.op = "destroy" =>
           LET r == last'.reqs
               n == Len(toplevels)
           IN /\ toplevels' = <<>>
              /\ \A i \in 1..n :
                   /\ r[i] = Req("destroy", toplevels[i])
                   /\ \A j \in 1..n : toplevels[j] = toplevels[i] => j = i
                   /\ proxy'[toplevels[i]] = "destroyed"
                   /\ alloc'[toplevels[i]] = "freed"
              /\ registry = BOUND /\ registry' = NULL
              /\ r[n + 1] = Req("destroy", "registry")
              /\ IF manager = NULL
                 THEN Len(r) = n + 1 /\ pc' = "destroyed"
                 ELSE IF fault' = "none"
                 THEN /\ Len(r) = n + 3 /\ pc' = "td_rt"
                      /\ r[n + 2] = Req("stop", "manager")
                      /\ r[n + 3] = Req("sync", "display")
                 ELSE /\ mgrProxy = "destroyed"
                      /\ Len(r) <= n + 2
                      /\ Len(r) = n + 2 => r[n + 2] = Req("stop", "manager")
      /\ last'.op = "destroy_rt" =>
           (pc = "td_rt" /\ pc' = "destroyed" /\ last'.reqs = <<>>) ]_vars

\* the teardown of a mode with two listed toplevels and a manager: two
\* handles, the registry, stop, and the round-trip is under way
C18_Witness ==
  /\ last.op = "destroy" /\ fault = "none" /\ pc = "td_rt"
  /\ last.reqs = << Req("destroy", 2), Req("destroy", 1),
                    Req("destroy", "registry"), Req("stop", "manager"),
                    Req("sync", "display") >>

\* C19: no request is made on a destroyed handle: the teardown makes no stop
\* call on a manager that a finished event destroyed, and an activate or close
\* request goes to a toplevel handle that is not destroyed.
C19_NoRequestOnDestroyed ==
  [][ /\ (last'.op = "destroy" /\ mgrProxy = "destroyed") =>
           /\ fault' = "none"
           /\ \A i \in 1..Len(last'.reqs) : last'.reqs[i].req # "stop"
      /\ (last'.op \in { "activate", "close" } /\ fault' = "none") =>
           \A i \in 1..Len(last'.reqs) :
             last'.reqs[i].req \in { "activate", "close" } =>
               proxy[last'.reqs[i].on] = "listening" ]_vars

\* C20: when the teardown has completed no toplevel is allocated and no
\* handle has a listener (a handle's listener reaches the freed private state
\* through its toplevel's view pointer), whatever the final round-trip
\* dispatched.
C20_NothingLeftAfterTeardown ==
  pc = "destroyed" =>
    \A h \in Handles : alloc[h] # "live" /\ proxy[h] # "listening"

\* the name whose image the icon fetcher holds for an app id: the app id as
\* it is, else its lower-case form, else none
IconFor(app_id) ==
  IF app_id \in icons THEN app_id
  ELSE IF g_utf8_strdown(app_id) \in icons THEN g_utf8_strdown(app_id)
  ELSE NULL_STR

\* an icon call for a listed row whose toplevel has an app id
IconCallOnRow ==
  /\ last.op = "get_icon" /\ last.h < Len(toplevels)
  /\ obj[toplevels[last.h + 1]].app_id \notin { NULL_STR, <<>> }

\* C21: the image an icon call returns is the one the icon fetcher holds for
\* the app id the toplevel has at the call, also after an app_id event changed
\* it since the last call at the same height.
C21_IconOfCurrentAppId ==
  IconCallOnRow =>
    last.ret.name = IconFor(obj[toplevels[last.h + 1]].app_id)

====
